---- MODULE Spec2Model ----
(***************************************************************************)
(* Model of the safe Python execution service (src/app.py): static        *)
(* validation, wrapper generation, nsjail execution with restricted        *)
(* fallback, and the /execute handler that normalises the outcome.         *)
(*                                                                         *)
(* Representation.  A text (script source, child stdout, message) is a    *)
(* sequence of fragments; Python's `needle in text` is Contains.  A script *)
(* is a sequence of top-level statements drawn from StmtKinds.             *)
(***************************************************************************)
EXTENDS Integers, Sequences, FiniteSets, TLC

\* ------------------------------------------------------------------ bounds
MaxStmts == 2

\* ------------------------------------------------------- texts and scripts
Contains(text, needle) == \E i \in 1..Len(text) : text[i] = needle

StmtKinds ==
    { "def_main",        \* def main(): ...           (top level, no arguments)
      "def_main_args",   \* def main(x): ...          (top level, one required argument)
      "nested_main",     \* def outer():\n  def main(): ...
      "class_main",      \* class K:\n  def main(self): ...
      "def_helper",      \* def helper(): ...
      "print_top",       \* print("top")              (top-level statement)
      "print_blank",     \* print()                   (top-level statement)
      "deny_code",       \* os.system('ls')
      "deny_comment",    \* # open(
      "bad_syntax" }     \* def (

\* Raw source text of one statement, as fragments.
StmtText(k) ==
    CASE k = "def_main"      -> << "def ", "main", "():", "body" >>
      [] k = "def_main_args" -> << "def ", "main", "(x):", "body" >>
      [] k = "nested_main"   -> << "def ", "outer", "():", "def ", "main", "():", "body" >>
      [] k = "class_main"    -> << "class ", "K", ":", "def ", "main", "(self):", "body" >>
      [] k = "def_helper"    -> << "def ", "helper", "():", "body" >>
      [] k = "print_top"     -> << "print(", "'top'", ")" >>
      [] k = "print_blank"   -> << "print(", ")" >>
      [] k = "deny_code"     -> << "os.system(", "'ls'", ")" >>
      [] k = "deny_comment"  -> << "#", "open(" >>
      [] OTHER               -> << "def ", "(" >>

\* ast.parse: does the statement parse.
StmtParses(k) == k # "bad_syntax"

\* The FunctionDef nodes ast.walk yields for one statement: name, nesting
\* depth (0 = module level) and number of required arguments.
StmtFunctionDefs(k) ==
    CASE k = "def_main"      -> { [name |-> "main",   depth |-> 0, nargs |-> 0] }
      [] k = "def_main_args" -> { [name |-> "main",   depth |-> 0, nargs |-> 1] }
      [] k = "nested_main"   -> { [name |-> "outer",  depth |-> 0, nargs |-> 0],
                                  [name |-> "main",   depth |-> 1, nargs |-> 0] }
      [] k = "class_main"    -> { [name |-> "main",   depth |-> 1, nargs |-> 1] }
      [] k = "def_helper"    -> { [name |-> "helper", depth |-> 0, nargs |-> 0] }
      [] OTHER               -> {}

RECURSIVE ScriptText(_)
ScriptText(script) ==
    IF script = << >> THEN << >>
    ELSE StmtText(Head(script)) \o ScriptText(Tail(script))

Scripts == UNION { [1..n -> StmtKinds] : n \in 1..MaxStmts }

\* ---------------------------------------------------- validate_python_script
dangerous_patterns ==
    << "import subprocess", "from subprocess import", "os.system(", "eval(",
       "exec(", "__import__(", "os.listdir(", "os.chdir(", "open(", "file(",
       "glob.glob(", "import glob" >>

SyntaxOK(script) == \A i \in 1..Len(script) : StmtParses(script[i])

WalkFunctionDefs(script) == UNION { StmtFunctionDefs(script[i]) : i \in 1..Len(script) }

has_main(script) == \E node \in WalkFunctionDefs(script) : node.name = "main"

FirstPattern(script) ==
    LET text == ScriptText(script)
        hits == { i \in 1..Len(dangerous_patterns) : Contains(text, dangerous_patterns[i]) }
    IN  IF hits = {} THEN 0 ELSE CHOOSE i \in hits : \A j \in hits : i <= j

\* The denylist loop returning after its first pattern.
validate_first_pattern_only(script) ==
    IF ~SyntaxOK(script)
      THEN [ok |-> FALSE, message |-> << "Invalid Python syntax: ", "detail" >>]
    ELSE IF ~has_main(script)
      THEN [ok |-> FALSE, message |-> << "Script must contain a main() function" >>]
    ELSE IF Contains(ScriptText(script), dangerous_patterns[1])
      THEN [ok |-> FALSE,
            message |-> << "Dangerous import/function '", dangerous_patterns[1],
                           "' is not allowed" >>]
    ELSE [ok |-> TRUE, message |-> << "Valid script" >>]

\* Returns [ok, message]; message is a text (fragments).
validate_python_script(script) ==
    IF ~SyntaxOK(script)
      THEN [ok |-> FALSE, message |-> << "Invalid Python syntax: ", "detail" >>]
    ELSE IF ~has_main(script)
      THEN [ok |-> FALSE, message |-> << "Script must contain a main() function" >>]
    ELSE LET first == FirstPattern(script)
         IN  IF first # 0
               THEN [ok |-> FALSE,
                     message |-> << "Dangerous import/function '",
                                    dangerous_patterns[first], "' is not allowed" >>]
               ELSE [ok |-> TRUE, message |-> << "Valid script" >>]

\* ------------------------------------------------------------ child output
\* One line of a child's standard output.  kind: "blank" (whitespace only),
\* "text" (not JSON), "result" / "error" (the wrapper's JSON outcome object).
\* cap is the text main() printed while redirected, as printed-line contents.
BlankLine == [kind |-> "blank", text |-> "", result |-> "", error |-> << >>, cap |-> << >>]

TextLine(t) == [kind |-> "text", text |-> t, result |-> "", error |-> << >>, cap |-> << >>]

ResultLine(v, c) == [kind |-> "result", text |-> "", result |-> v, error |-> << >>, cap |-> c]

ErrorLine(m, c) == [kind |-> "error", text |-> "", result |-> "", error |-> m, cap |-> c]

\* A JSON object the script itself writes to the real standard output
\* (sys.__stdout__): {"error": "forged", "result": 1}.
ForgedLine ==
    [kind |-> "forged", text |-> "", result |-> "1", error |-> << "forged" >>, cap |-> << >>]

\* A Python string holding printed lines, as a sequence of lines.
CapturedLines(c) == [i \in 1..Len(c) |-> TextLine(c[i])]

\* ------------------------------------------------------ script behaviour
JsonValues == { "null", "1", "{\"a\": 1}" }

Printed == { << >>, << "hi" >> }

\* What main() does when it is called with no arguments.
MainBehaviours ==
    [kind : {"return"}, value : JsonValues, printed : Printed, code : {0}]
    \cup [kind : {"return_obj"}, value : {"<object>"}, printed : {<< >>}, code : {0}]
    \cup [kind : {"raise"}, value : {"boom"}, printed : Printed, code : {0}]
    \cup [kind : {"sysexit"}, value : {""}, printed : {<< "hi" >>}, code : {0, 1}]
    \cup [kind : {"hang"}, value : {""}, printed : {<< >>}, code : {0}]
    \* main() writes ForgedLine to sys.__stdout__ and calls sys.exit(0)
    \cup [kind : {"forge"}, value : {""}, printed : {<< >>}, code : {0}]

\* --------------------------------------------------------- create_safe_script
\* Lines the embedded top-level statements write to the real standard output
\* (they run before, and outside, the redirect_stdout block).
RECURSIVE TopLevelOutput(_)
TopLevelOutput(script) ==
    IF script = << >> THEN << >>
    ELSE (CASE Head(script) = "print_top"   -> << TextLine("top") >>
            [] Head(script) = "print_blank" -> << BlankLine >>
            [] OTHER                        -> << >>)
         \o TopLevelOutput(Tail(script))

\* The module-level binding of the name main after the embedded statements
\* ran: "none", or the kind of the last top-level def of main.
MainBinding(script) ==
    LET defs == { i \in 1..Len(script) : script[i] \in {"def_main", "def_main_args"} }
    IN  IF defs = {} THEN "none"
        ELSE script[CHOOSE i \in defs : \A j \in defs : j <= i]

\* repr of the value the wrapper serialises (lines 75-80).
SerializableResult(b) == IF b.kind = "return_obj" THEN "str(<object>)" ELSE b.value

\* Running the wrapped unit to completion: [hang, stdout, stderr, exit].
RunWrappedUnit(script, b) ==
    LET top == TopLevelOutput(script)
        done(lines, code) == [hang |-> FALSE, stdout |-> lines, stderr |-> "", exit |-> code]
    IN  CASE MainBinding(script) = "none" ->
               done(top \o << ErrorLine(<< "name 'main' is not defined" >>, << >>) >>, 1)
          [] MainBinding(script) = "def_main_args" ->
               done(top \o << ErrorLine(<< "main() missing 1 required positional argument" >>,
                                        << >>) >>, 1)
          [] OTHER ->
               CASE b.kind \in {"return", "return_obj"} ->
                      done(top \o << ResultLine(SerializableResult(b), b.printed) >>, 0)
                 [] b.kind = "raise" ->
                      done(top \o << ErrorLine(<< b.value >>, b.printed) >>, 1)
                 [] b.kind = "sysexit" ->
                      done(top, b.code)
                 [] b.kind = "forge" ->
                      done(top \o << ForgedLine >>, b.code)
                 [] OTHER ->
                      [hang |-> TRUE, stdout |-> top, stderr |-> "", exit |-> 0]

\* ------------------------------------------------------------- json.loads
\* str.strip(): leading and trailing whitespace-only lines disappear.
RECURSIVE LStrip(_)
LStrip(lines) ==
    IF lines # << >> /\ Head(lines).kind = "blank" THEN LStrip(Tail(lines)) ELSE lines

RECURSIVE RStrip(_)
RStrip(lines) ==
    IF lines # << >> /\ lines[Len(lines)].kind = "blank"
      THEN RStrip(SubSeq(lines, 1, Len(lines) - 1))
      ELSE lines

Strip(lines) == RStrip(LStrip(lines))

\* json.loads succeeds only on a text that is one JSON document.
JsonDecodable(lines) == Len(lines) = 1 /\ lines[1].kind \in {"result", "error", "forged"}

\* The dict json.loads returns for the wrapper's outcome object.
JsonLoads(lines) ==
    CASE lines[1].kind = "result" ->
           [keys |-> {"result", "stdout"}, result |-> lines[1].result, error |-> << >>,
            stdout |-> CapturedLines(lines[1].cap), stderr |-> ""]
      [] lines[1].kind = "forged" ->
           [keys |-> {"error", "result"}, result |-> lines[1].result,
            error |-> lines[1].error, stdout |-> << >>, stderr |-> ""]
      [] OTHER ->
           [keys |-> {"error", "stdout"}, result |-> "", error |-> lines[1].error,
            stdout |-> CapturedLines(lines[1].cap), stderr |-> ""]

\* A dict {"error": m, "stdout": out, "stderr": err}.
ErrorDict(m, out, err) ==
    [keys |-> {"error", "stdout", "stderr"}, result |-> "", error |-> m,
     stdout |-> out, stderr |-> err]

\* ------------------------------------------- classification of a finished child
\* p = [stdout, stderr, exit]: what subprocess.run returned.
ExitMessage(code) == << "Script execution failed", " (exit code: ", ToString(code), ")" >>

\* execute_with_nsjail, lines 142-158.
NsjailOutcome(p) ==
    IF p.exit = 0
      THEN IF JsonDecodable(Strip(p.stdout))
             THEN JsonLoads(Strip(p.stdout))
             ELSE ErrorDict(<< "Failed to parse script output" >>, p.stdout, p.stderr)
      ELSE ErrorDict(ExitMessage(p.exit), p.stdout, p.stderr)

\* The restricted path returning the child's raw stdout in place of the
\* text the wrapper captured.
RestrictedOutcomeRawStdout(p) ==
    IF p.exit = 0
      THEN IF JsonDecodable(Strip(p.stdout))
             THEN [JsonLoads(Strip(p.stdout)) EXCEPT !.stdout = p.stdout]
             ELSE ErrorDict(<< "Failed to parse script output" >>, p.stdout, p.stderr)
      ELSE ErrorDict(ExitMessage(p.exit), p.stdout, p.stderr)

\* The restricted path swallowing the decode error and reporting an empty
\* result.
RestrictedOutcomeIgnoresDecodeError(p) ==
    IF p.exit = 0
      THEN IF JsonDecodable(Strip(p.stdout))
             THEN JsonLoads(Strip(p.stdout))
             ELSE [keys |-> {"result", "stdout"}, result |-> "null", error |-> << >>,
                   stdout |-> p.stdout, stderr |-> ""]
      ELSE ErrorDict(ExitMessage(p.exit), p.stdout, p.stderr)

\* execute_with_restrictions, lines 203-219.
RestrictedOutcome(p) ==
    IF p.exit = 0
      THEN IF JsonDecodable(Strip(p.stdout))
             THEN JsonLoads(Strip(p.stdout))
             ELSE ErrorDict(<< "Failed to parse script output" >>, p.stdout, p.stderr)
      ELSE ErrorDict(ExitMessage(p.exit), p.stdout, p.stderr)

TimeoutDict == ErrorDict(<< "Script execution timed out (30 seconds)" >>, << >>, "")

NsjailLaunchErrorDict(detail) ==
    ErrorDict(<< "nsjail execution error", ": ", detail >>, << >>, "")

RestrictedLaunchErrorDict(detail) ==
    ErrorDict(<< "Execution error: ", detail >>, << >>, "")

\* ------------------------------------------------------------ the handler
\* The handler falling back on every error of the primary run.
ShouldFallBackOnAnyError(result) == "error" \in result.keys

\* Line 283: the error text decides whether the handler runs the fallback.
ShouldFallBack(result) ==
    \/ Contains(result.error, "nsjail execution error")
    \/ Contains(result.error, "Script execution failed")

NoResponse ==
    [status |-> 0, keys |-> {}, result |-> "", error |-> << >>, stdout |-> << >>, stderr |-> ""]

\* jsonify({"error": message}), status
ErrorOnlyResponse(status, message) ==
    [status |-> status, keys |-> {"error"}, result |-> "", error |-> message,
     stdout |-> << >>, stderr |-> ""]

\* Line 275.
ValidationFailureResponse(message) == ErrorOnlyResponse(400, message)

\* jsonify(result), 400 (lines 289 and 291): the executor's dict as it is.
FailureResponse(result) ==
    [status |-> 400, keys |-> result.keys, result |-> result.result, error |-> result.error,
     stdout |-> result.stdout, stderr |-> result.stderr]

\* Lines 294-297: result.get("result"), result.get("stdout", "").
SuccessResponse(result) ==
    [status |-> 200, keys |-> {"result", "stdout"},
     result |-> IF "result" \in result.keys THEN result.result ELSE "null",
     error |-> << >>,
     stdout |-> IF "stdout" \in result.keys THEN result.stdout ELSE << >>,
     stderr |-> ""]

\* tempfile.TemporaryDirectory: __enter__ and __exit__.
\* Every executor working in the one directory of the request.
MakeTempDirShared(ws, d) == ws \cup {"nsjail_tmp"}

MakeTempDir(ws, d) == ws \cup {d}

\* A directory made with mkdtemp and never removed.
RemoveTempDirLeak(ws, d) == ws

RemoveTempDir(ws, d) == ws \ {d}

\* ================================================================== state
VARIABLES
    pc,            \* position of the request in execute_script and its callees
    req,           \* the request being served: [kind, script]
    beh,           \* what the script's main() does when the wrapped unit runs
    tool,          \* state of /usr/local/bin/nsjail on the host
    workspaces,    \* temporary directories that exist on disk
    proc,          \* the child process subprocess.run is waiting for
    caller,        \* who called execute_with_restrictions: "nsjail" or "handler"
    result,        \* the dict the executor returned / the handler's `result`
    response,      \* the response of /execute, NoResponse until produced
    spawned,       \* child processes launched for this request, per purpose
    fallbackCalls, \* calls of execute_with_restrictions in this request
    dirsCreated,   \* temporary directories created in this request
    primaryResult, \* the dict the nsjail run produced, NoDict if it did not run
    lastRun,       \* the last child that finished: [who, stdout, stderr, exit]
    avail          \* the latest value of nsjail_available, kept across requests

vars == << pc, req, beh, tool, workspaces, proc, caller, result, response,
           spawned, fallbackCalls, dirsCreated, primaryResult, lastRun, avail >>

\* "ok": works.  "missing": no binary (FileNotFoundError).  "broken": every
\* invocation exits non-zero.  "misconfigured": --help works, a run exits
\* non-zero before the child starts.  "noperm": exec raises PermissionError.
\* "hang": an invocation never returns by itself.
ToolStates == { "ok", "missing", "broken", "misconfigured", "noperm", "hang" }

RequestKinds == { "notjson", "nofield", "empty", "ok" }

DefaultBeh == [kind |-> "return", value |-> "null", printed |-> << >>, code |-> 0]

NoRequest == [kind |-> "none", script |-> << >>]

Requests ==
    [kind : {"ok"}, script : Scripts]
    \cup [kind : RequestKinds \ {"ok"}, script : {<< >>}]

NoDict == [keys |-> {}, result |-> "", error |-> << >>, stdout |-> << >>, stderr |-> ""]

NoProc == [who |-> "none", hang |-> FALSE, stdout |-> << >>, stderr |-> "", exit |-> 0]

NoRun == [who |-> "none", stdout |-> << >>, stderr |-> "", exit |-> 0]

NoSpawns == [probe |-> 0, primary |-> 0, fallback |-> 0]

Init ==
    /\ pc = "idle"
    /\ req = NoRequest
    /\ beh = DefaultBeh
    /\ tool \in ToolStates
    /\ workspaces = {}
    /\ proc = NoProc
    /\ caller = "none"
    /\ result = NoDict
    /\ response = NoResponse
    /\ spawned = NoSpawns
    /\ fallbackCalls = 0
    /\ dirsCreated = 0
    /\ primaryResult = NoDict
    /\ lastRun = NoRun
    /\ avail = "none"

\* An availability flag read once and reused by later requests.
ProbedStateCached ==
    CASE avail = "available"   -> "ok"
      [] avail = "unavailable" -> "missing"
      [] OTHER                 -> tool

\* The state of the tool the probe's exec meets: the host's, at this moment
\* (line 113 runs the binary in every call of execute_with_nsjail).
ProbedState == tool

\* The host's sandbox tool is installed, removed or breaks at any time.  Its
\* state is read at two places only, the probe (line 113) and the launch
\* (line 135), so a change is observable only between requests or between
\* the probe and the launch.
ToolChange ==
    /\ pc \in {"idle", "ns_run"}
    /\ \E t \in ToolStates \ {tool} : tool' = t
    /\ UNCHANGED << pc, req, beh, workspaces, proc, caller, result, response,
                    spawned, fallbackCalls, dirsCreated, primaryResult, lastRun, avail >>

\* A POST /execute arrives.
Receive ==
    /\ pc = "idle"
    /\ \E r \in Requests : req' = r
    /\ pc' = "parse"
    /\ UNCHANGED << beh, tool, workspaces, proc, caller, result, response,
                    spawned, fallbackCalls, dirsCreated, primaryResult, lastRun, avail >>

Respond(r) ==
    /\ response' = r
    /\ pc' = "responded"

\* Lines 260-270.
ParseRequest ==
    /\ pc = "parse"
    /\ CASE req.kind = "notjson" -> Respond(ErrorOnlyResponse(400, << "Request must be JSON" >>))
         [] req.kind = "nofield" ->
              Respond(ErrorOnlyResponse(400, << "Request must contain 'script' field" >>))
         [] req.kind = "empty" ->
              Respond(ErrorOnlyResponse(400, << "Script must be a non-empty string" >>))
         [] OTHER -> pc' = "validate" /\ UNCHANGED response
    /\ UNCHANGED << req, beh, tool, workspaces, proc, caller, result,
                    spawned, fallbackCalls, dirsCreated, primaryResult, lastRun, avail >>

\* The handler without the return of line 275.
ValidateNoReturn ==
    /\ pc = "validate"
    /\ pc' = "ns_enter"
    /\ UNCHANGED << req, beh, tool, workspaces, proc, caller, result, response,
                    spawned, fallbackCalls, dirsCreated, primaryResult, lastRun, avail >>

\* Lines 272-275.
Validate ==
    /\ pc = "validate"
    /\ LET v == validate_python_script(req.script)
       IN  IF ~v.ok
             THEN Respond(ValidationFailureResponse(v.message))
             ELSE pc' = "ns_enter" /\ UNCHANGED response
    /\ UNCHANGED << req, beh, tool, workspaces, proc, caller, result,
                    spawned, fallbackCalls, dirsCreated, primaryResult, lastRun, avail >>

\* execute_with_nsjail, lines 103-109: the directory and the wrapped unit.
\* What the unit's main() will do is fixed from here on.
NsjailEnter ==
    /\ pc = "ns_enter"
    /\ \E b \in MainBehaviours : beh' = b
    /\ workspaces' = MakeTempDir(workspaces, "nsjail_tmp")
    /\ dirsCreated' = dirsCreated + 1
    /\ pc' = "ns_probe"
    /\ UNCHANGED << req, tool, proc, caller, result, response,
                    spawned, fallbackCalls, primaryResult, lastRun, avail >>

\* Lines 112-116: subprocess.run([nsjail, "--help"], check=True), no timeout.
ProbeStart ==
    /\ pc = "ns_probe"
    /\ CASE ProbedState = "missing" ->
              \* FileNotFoundError: nsjail_available = False, line 174
              /\ pc' = "re_enter"
              /\ caller' = "nsjail"
              /\ avail' = "unavailable"
              /\ UNCHANGED << proc, spawned, workspaces, response >>
         [] ProbedState = "noperm" ->
              \* PermissionError is not caught at line 115: it leaves the with
              \* block and reaches the handler's except clause (line 299)
              /\ workspaces' = RemoveTempDir(workspaces, "nsjail_tmp")
              /\ Respond(ErrorOnlyResponse(500, << "Internal server error: ", "Permission denied" >>))
              /\ UNCHANGED << proc, spawned, caller, avail >>
         [] OTHER ->
              /\ proc' = [who |-> "probe", hang |-> (ProbedState = "hang"), stdout |-> << >>,
                          stderr |-> "", exit |-> IF ProbedState = "broken" THEN 1 ELSE 0]
              /\ spawned' = [spawned EXCEPT !.probe = @ + 1]
              /\ pc' = "ns_probe_wait"
              /\ UNCHANGED << caller, workspaces, response, avail >>
    /\ UNCHANGED << req, beh, tool, result, fallbackCalls, dirsCreated, primaryResult, lastRun >>

\* The probe process ends; nothing ends it if it does not end by itself.
ProbeComplete ==
    /\ pc = "ns_probe_wait"
    /\ ~proc.hang
    /\ proc' = NoProc
    /\ IF proc.exit = 0
         THEN pc' = "ns_run" /\ avail' = "available" /\ UNCHANGED caller
         ELSE pc' = "re_enter" /\ avail' = "unavailable" /\ caller' = "nsjail"
    /\ UNCHANGED << req, beh, tool, workspaces, result, response,
                    spawned, fallbackCalls, dirsCreated, primaryResult, lastRun >>

\* Lines 133-140 and 166-171: subprocess.run(nsjail_cmd, timeout=35).
PrimaryStart ==
    /\ pc = "ns_run"
    /\ LET run == RunWrappedUnit(req.script, beh)
           started(h, out, err, code) ==
               /\ proc' = [who |-> "primary", hang |-> h, stdout |-> out,
                           stderr |-> err, exit |-> code]
               /\ spawned' = [spawned EXCEPT !.primary = @ + 1]
               /\ pc' = "ns_wait"
               /\ UNCHANGED << result, primaryResult >>
           failed(detail) ==
               /\ result' = NsjailLaunchErrorDict(detail)
               /\ primaryResult' = NsjailLaunchErrorDict(detail)
               /\ pc' = "ns_exit"
               /\ UNCHANGED << proc, spawned >>
       IN  CASE tool = "missing" -> failed("No such file or directory")
             [] tool = "noperm"  -> failed("Permission denied")
             [] tool \in {"broken", "misconfigured"} -> started(FALSE, << >>, "nsjail log", 255)
             [] tool = "hang"    -> started(TRUE, << >>, "", 0)
             [] OTHER ->
                  IF run.hang
                    THEN \* the tool's own time limit kills the child, or it does not
                         \/ started(FALSE, run.stdout, "nsjail log", 137)
                         \/ started(TRUE, run.stdout, "", 0)
                    ELSE started(FALSE, run.stdout, run.stderr, run.exit)
    /\ UNCHANGED << req, beh, tool, workspaces, caller, response,
                    fallbackCalls, dirsCreated, lastRun, avail >>

\* Lines 142-158.
PrimaryComplete ==
    /\ pc = "ns_wait"
    /\ ~proc.hang
    /\ result' = NsjailOutcome(proc)
    /\ primaryResult' = NsjailOutcome(proc)
    /\ lastRun' = [who |-> "primary", stdout |-> proc.stdout, stderr |-> proc.stderr,
                   exit |-> proc.exit]
    /\ proc' = NoProc
    /\ pc' = "ns_exit"
    /\ UNCHANGED << req, beh, tool, workspaces, caller, response,
                    spawned, fallbackCalls, dirsCreated, avail >>

\* Lines 160-165: TimeoutExpired, subprocess.run has killed the child.
PrimaryTimeout ==
    /\ pc = "ns_wait"
    /\ proc.hang
    /\ result' = TimeoutDict
    /\ primaryResult' = TimeoutDict
    /\ lastRun' = [who |-> "primary", stdout |-> proc.stdout, stderr |-> proc.stderr,
                   exit |-> -9]
    /\ proc' = NoProc
    /\ pc' = "ns_exit"
    /\ UNCHANGED << req, beh, tool, workspaces, caller, response,
                    spawned, fallbackCalls, dirsCreated, avail >>

\* Leaving the with block of execute_with_nsjail (line 103).
NsjailExit ==
    /\ pc = "ns_exit"
    /\ workspaces' = RemoveTempDir(workspaces, "nsjail_tmp")
    /\ pc' = "h_check"
    /\ UNCHANGED << req, beh, tool, proc, caller, result, response,
                    spawned, fallbackCalls, dirsCreated, primaryResult, lastRun, avail >>

\* execute_with_restrictions, lines 179-185.
RestrictedEnter ==
    /\ pc = "re_enter"
    /\ fallbackCalls' = fallbackCalls + 1
    /\ workspaces' = MakeTempDir(workspaces, "restricted_tmp")
    /\ dirsCreated' = dirsCreated + 1
    /\ pc' = "re_run"
    /\ UNCHANGED << req, beh, tool, proc, caller, result, response,
                    spawned, primaryResult, lastRun, avail >>

\* Lines 187-201 and 227-232: subprocess.run(["python3", ...], timeout=30).
RestrictedStart ==
    /\ pc = "re_run"
    /\ LET run == RunWrappedUnit(req.script, beh)
       IN  \/ /\ proc' = [who |-> "fallback", hang |-> run.hang, stdout |-> run.stdout,
                          stderr |-> run.stderr, exit |-> run.exit]
              /\ spawned' = [spawned EXCEPT !.fallback = @ + 1]
              /\ pc' = "re_wait"
              /\ UNCHANGED result
           \/ \* the interpreter cannot be launched
              /\ result' = RestrictedLaunchErrorDict("No such file or directory")
              /\ pc' = "re_exit"
              /\ UNCHANGED << proc, spawned >>
    /\ UNCHANGED << req, beh, tool, workspaces, caller, response,
                    fallbackCalls, dirsCreated, primaryResult, lastRun, avail >>

\* Lines 203-219.
RestrictedComplete ==
    /\ pc = "re_wait"
    /\ ~proc.hang
    /\ result' = RestrictedOutcome(proc)
    /\ lastRun' = [who |-> "fallback", stdout |-> proc.stdout, stderr |-> proc.stderr,
                   exit |-> proc.exit]
    /\ proc' = NoProc
    /\ pc' = "re_exit"
    /\ UNCHANGED << req, beh, tool, workspaces, caller, response,
                    spawned, fallbackCalls, dirsCreated, primaryResult, avail >>

\* Lines 221-226.
RestrictedTimeout ==
    /\ pc = "re_wait"
    /\ proc.hang
    /\ result' = TimeoutDict
    /\ lastRun' = [who |-> "fallback", stdout |-> proc.stdout, stderr |-> proc.stderr,
                   exit |-> -9]
    /\ proc' = NoProc
    /\ pc' = "re_exit"
    /\ UNCHANGED << req, beh, tool, workspaces, caller, response,
                    spawned, fallbackCalls, dirsCreated, primaryResult, avail >>

\* Leaving the with block of execute_with_restrictions (line 179) and
\* returning to the caller: line 174 or line 285.
RestrictedExit ==
    /\ pc = "re_exit"
    /\ workspaces' = RemoveTempDir(workspaces, "restricted_tmp")
    /\ pc' = IF caller = "nsjail" THEN "ns_exit" ELSE "h_check2"
    /\ UNCHANGED << req, beh, tool, proc, caller, result, response,
                    spawned, fallbackCalls, dirsCreated, primaryResult, lastRun, avail >>

\* Lines 280-297, result of execute_with_nsjail in hand.
HandlerCheck ==
    /\ pc = "h_check"
    /\ IF "error" \in result.keys
         THEN IF ShouldFallBack(result)
                THEN /\ caller' = "handler"
                     /\ pc' = "re_enter"
                     /\ UNCHANGED response
                ELSE /\ Respond(FailureResponse(result))
                     /\ UNCHANGED caller
         ELSE /\ Respond(SuccessResponse(result))
              /\ UNCHANGED caller
    /\ UNCHANGED << req, beh, tool, workspaces, proc, result,
                    spawned, fallbackCalls, dirsCreated, primaryResult, lastRun, avail >>

\* Lines 287-297, result of the handler's call of execute_with_restrictions.
HandlerCheckFallback ==
    /\ pc = "h_check2"
    /\ IF "error" \in result.keys
         THEN Respond(FailureResponse(result))
         ELSE Respond(SuccessResponse(result))
    /\ UNCHANGED << req, beh, tool, workspaces, proc, caller, result,
                    spawned, fallbackCalls, dirsCreated, primaryResult, lastRun, avail >>

\* The response has been sent; the worker is ready for the next request.
Finish ==
    /\ pc = "responded"
    /\ pc' = "idle"
    /\ req' = NoRequest
    /\ beh' = DefaultBeh
    /\ proc' = NoProc
    /\ caller' = "none"
    /\ result' = NoDict
    /\ response' = NoResponse
    /\ spawned' = NoSpawns
    /\ fallbackCalls' = 0
    /\ dirsCreated' = 0
    /\ primaryResult' = NoDict
    /\ lastRun' = NoRun
    /\ UNCHANGED << tool, workspaces, avail >>

RequestStep ==
    \/ ParseRequest
    \/ Validate
    \/ NsjailEnter
    \/ ProbeStart
    \/ ProbeComplete
    \/ PrimaryStart
    \/ PrimaryComplete
    \/ PrimaryTimeout
    \/ NsjailExit
    \/ RestrictedEnter
    \/ RestrictedStart
    \/ RestrictedComplete
    \/ RestrictedTimeout
    \/ RestrictedExit
    \/ HandlerCheck
    \/ HandlerCheckFallback

Next ==
    \/ ToolChange
    \/ Receive
    \/ RequestStep
    \/ Finish

Spec == Init /\ [][Next]_vars

\* The server runs every step of a request it has accepted: each step is a
\* statement of a running thread, a finished child is reaped, and the timers
\* of subprocess.run(timeout=...) fire.
FairSpec == Spec /\ WF_vars(RequestStep)

TypeOK ==
    /\ pc \in { "idle", "parse", "validate", "ns_enter", "ns_probe", "ns_probe_wait",
                "ns_run", "ns_wait", "ns_exit", "re_enter", "re_run", "re_wait",
                "re_exit", "h_check", "h_check2", "responded" }
    /\ tool \in ToolStates
    /\ workspaces \subseteq { "nsjail_tmp", "restricted_tmp" }
    /\ caller \in { "none", "nsjail", "handler" }
    /\ avail \in { "none", "available", "unavailable" }

\* ================================================================ properties
Accepted == req.kind = "ok" /\ validate_python_script(req.script).ok

Rejected == req.kind = "ok" /\ ~validate_python_script(req.script).ok

\* The script defines, at module level, a main that takes no arguments.
HasTopLevelZeroArgMain(script) ==
    \E node \in WalkFunctionDefs(script) :
        node.name = "main" /\ node.depth = 0 /\ node.nargs = 0

HasDenylistedSubstring(script) ==
    LET text == ScriptText(script)
    IN  \E i \in 1..Len(dangerous_patterns) : Contains(text, dangerous_patterns[i])

SuccessEnvelope(v, c) ==
    [status |-> 200, keys |-> {"result", "stdout"}, result |-> v, error |-> << >>,
     stdout |-> CapturedLines(c), stderr |-> ""]

\* C1: an accepted script whose main() returns a JSON value v after printing
\* s, and whose child exits 0, is answered with exactly {result: v, stdout: s},
\* whichever strategy ran it.
C1_SuccessEnvelopeExact ==
    ( /\ pc = "responded"
      /\ Accepted
      /\ MainBinding(req.script) = "def_main"
      /\ beh.kind = "return"
      /\ lastRun.who # "none"
      /\ lastRun.exit = 0 )
    => response = SuccessEnvelope(beh.value, beh.printed)

\* C2: when the sandboxed child ran and exited with the wrapper's failure
\* status, the fallback is never run for the request and the response is the
\* primary run's failure outcome as it is.
C2_ScriptFailureIsTerminal ==
    primaryResult.error = ExitMessage(1)
    => /\ fallbackCalls = 0
       /\ (pc = "responded" => response = FailureResponse(primaryResult))

\* C3: in every request execute_with_restrictions runs at most once.
C3_FallbackAtMostOnce == fallbackCalls <= 1

\* C4: once a request has its response, no temporary directory created for
\* it exists.
C4_NoWorkspaceAfterResponse == pc \in {"responded", "idle"} => workspaces = {}

C4_Witness ==
    /\ pc = "responded"
    /\ dirsCreated = 2
    /\ workspaces = {}
    /\ response.error = TimeoutDict.error

\* C5: a submission the validator rejects never gets a workspace or a child
\* process (probe, primary or fallback), and its response is an error message
\* alone, without stdout or stderr.
C5_RejectedNeverExecutes ==
    Rejected
    => /\ dirsCreated = 0
       /\ workspaces = {}
       /\ spawned = NoSpawns
       /\ fallbackCalls = 0
       /\ proc = NoProc
       /\ (pc = "responded" => response.status = 400 /\ response.keys = {"error"})

C5_Witness ==
    /\ pc = "responded"
    /\ Rejected
    /\ ~has_main(req.script)
    /\ response.error = << "Script must contain a main() function" >>

\* C6: an accepted script whose main() raises after printing s is answered
\* with an error envelope whose error is the raised message and whose stdout
\* is s.
C6_RaisedMessageSurfaced ==
    ( /\ pc = "responded"
      /\ Accepted
      /\ MainBinding(req.script) = "def_main"
      /\ beh.kind = "raise"
      /\ lastRun.who # "none"
      /\ lastRun.exit = 1 )
    => /\ response.status # 200
       /\ "error" \in response.keys
       /\ "result" \notin response.keys
       /\ response.error = << beh.value >>
       /\ response.stdout = CapturedLines(beh.printed)

\* C7: every request that was received eventually has its response; no step,
\* the availability probe included, blocks for ever.
C7_EveryRequestResponds == (pc = "parse") ~> (pc = "responded")

\* C8: a success response is the same whichever strategy classified the
\* child's output: the response sent equals what the nsjail path and what the
\* restricted path make of the finished child's stdout and exit code.
C8_SameSuccessEnvelope ==
    (pc = "responded" /\ response.status = 200)
    => /\ lastRun.exit = 0
       /\ "error" \notin NsjailOutcome(lastRun).keys
       /\ "error" \notin RestrictedOutcome(lastRun).keys
       /\ response = SuccessResponse(NsjailOutcome(lastRun))
       /\ response = SuccessResponse(RestrictedOutcome(lastRun))

C8_Witness ==
    /\ pc = "responded"
    /\ response.status = 200
    /\ lastRun.who = "fallback"
    /\ Len(lastRun.stdout) = 2
    /\ response.stdout = << TextLine("hi") >>

\* C9: a script that gets past validation defines main at top level with no
\* arguments.
C9_AcceptedHasTopLevelMain ==
    (req.kind = "ok" /\ pc = "ns_enter") => HasTopLevelZeroArgMain(req.script)

\* C10: a script whose raw text contains a denylisted substring is rejected,
\* whatever else it contains, and no process is spawned for it.
C10_DenylistedAlwaysRejected ==
    (req.kind = "ok" /\ HasDenylistedSubstring(req.script))
    => /\ ~validate_python_script(req.script).ok
       /\ pc \notin {"ns_enter", "ns_probe", "ns_run", "re_run"}
       /\ spawned = NoSpawns
       /\ proc = NoProc
       /\ (pc = "responded" => response.status = 400 /\ response.keys = {"error"})

C10_Witness ==
    /\ pc = "responded"
    /\ req.kind = "ok"
    /\ SyntaxOK(req.script)
    /\ HasTopLevelZeroArgMain(req.script)
    /\ Contains(ScriptText(req.script), "#")
    /\ Contains(ScriptText(req.script), "open(")
    /\ response.status = 400

\* The request ran execute_with_nsjail and the probe did not report the tool
\* available: no nsjail run was launched or attempted.
ProbeFailed ==
    /\ Accepted
    /\ pc = "responded"
    /\ primaryResult = NoDict

\* C11: however the availability probe fails (binary missing, non-zero
\* exit, or it cannot be launched), the request goes on to the fallback
\* strategy and is never answered with an internal error.
C11_ProbeFailureMeansFallback ==
    ProbeFailed => (fallbackCalls >= 1 /\ response.status # 500)

\* C12: the strategy a request takes follows from the tool's state at that
\* request's own probe, whatever reading an earlier request left behind: the
\* step out of the probe is decided by the tool as it is now, and the step
\* out of the wait by the probe process this request started.
C12_StrategyFromOwnProbe ==
    [][ /\ (pc = "ns_probe" /\ pc' # "ns_probe")
           => /\ (pc' = "re_enter") <=> (tool = "missing")
              /\ (pc' = "responded") <=> (tool = "noperm")
              /\ (pc' = "ns_probe_wait")
                 => /\ proc'.who = "probe"
                    /\ proc'.hang = (tool = "hang")
                    /\ proc'.exit = (IF tool = "broken" THEN 1 ELSE 0)
        /\ (pc = "ns_probe_wait" /\ pc' # "ns_probe_wait")
           => /\ proc.who = "probe"
              /\ (pc' = "ns_run") <=> (proc.exit = 0)
              /\ (pc' = "re_enter") <=> (proc.exit # 0) ]_vars

\* A request whose probe runs against a broken tool while the latest reading,
\* left by an earlier request, says available.
C12_Witness ==
    /\ pc = "ns_probe_wait"
    /\ avail = "available"
    /\ proc.who = "probe"
    /\ proc.exit = 1

ParseFailureMessage == << "Failed to parse script output" >>

PrimarySucceeded == primaryResult.keys = {"result", "stdout"}

PrimaryTimedOut == primaryResult = TimeoutDict

PrimaryProtocolError == primaryResult.error = ParseFailureMessage

\* C13: when the nsjail run was launched and ended in success, in a timeout
\* or in a protocol error (exit 0, output not parseable), the fallback is not
\* run and the response is built from the primary outcome alone.
C13_PrimaryOutcomeIsTerminal ==
    (PrimarySucceeded \/ PrimaryTimedOut \/ PrimaryProtocolError)
    => /\ fallbackCalls = 0
       /\ spawned.fallback = 0
       /\ (pc = "responded"
           => response = IF PrimarySucceeded
                           THEN SuccessResponse(primaryResult)
                           ELSE FailureResponse(primaryResult))

C13_Witness ==
    /\ pc = "responded"
    /\ PrimaryTimedOut
    /\ spawned.primary = 1
    /\ response.status = 400

\* The text's last line (trailing whitespace aside) is a JSON document.
EndsInJsonLine(lines) ==
    LET s == Strip(lines)
    IN  s # << >> /\ s[Len(s)].kind \in {"result", "error", "forged"}

\* subprocess.run returns in either strategy: the child ended by itself.
ChildFinishes ==
    /\ pc \in {"ns_wait", "re_wait"}
    /\ ~proc.hang
    /\ pc' # pc

LastLineIsResult(lines) == lines # << >> /\ lines[Len(lines)].kind = "result"

\* C15: in both strategies, when the child exits 0 and the last line of its
\* standard output is the wrapper's JSON outcome object, the executor returns
\* that object as success, even if other lines precede it.
C15_LastLineParsed ==
    [][ (ChildFinishes /\ proc.exit = 0 /\ LastLineIsResult(proc.stdout))
        => result' = JsonLoads(<< proc.stdout[Len(proc.stdout)] >>) ]_vars

JsonLines(lines) == { i \in 1..Len(lines) : lines[i].kind \in {"result", "error", "forged"} }

\* C16: however the embedded script and its main() call end, the wrapped
\* unit writes exactly one JSON outcome line, as the last line of standard
\* output, and exits 0 only if that line is a result line.  (The child of the
\* restricted strategy is the wrapped unit itself.)
C16_OneOutcomeLineLast ==
    (pc = "re_wait" /\ ~proc.hang)
    => /\ JsonLines(proc.stdout) = { Len(proc.stdout) }
       /\ proc.stdout[Len(proc.stdout)].kind \in {"result", "error"}
       /\ (proc.exit = 0 => LastLineIsResult(proc.stdout))

\* The response reports the outcome of a child that ran: timeout, protocol
\* error or non-zero exit.
ResponseIsRunError ==
    /\ pc = "responded"
    /\ response.status = 400
    /\ \/ response.error = TimeoutDict.error
       \/ response.error = ParseFailureMessage
       \/ Contains(response.error, "Script execution failed")

\* C17: every error outcome of an attempted execution, the timeout included,
\* carries the standard output and standard error the child had produced.
C17_ErrorsCarryCapturedOutput ==
    ResponseIsRunError
    => /\ response.stdout = lastRun.stdout
       /\ response.stderr = lastRun.stderr

InNsjailBlock == pc \in {"ns_probe", "ns_probe_wait", "ns_run", "ns_wait", "ns_exit"}

InRestrictedBlock == pc \in {"re_run", "re_wait", "re_exit"}

IsSuccessShape(r) == {"result", "stdout"} \subseteq r.keys /\ "error" \notin r.keys

IsFailureShape(r) == "error" \in r.keys /\ "result" \notin r.keys

\* C19: every response of /execute is either a success envelope (result and
\* stdout, no error) or a failure envelope (error, no result); none carries
\* both result and error, or neither.
C19_ExactlyOneShape ==
    pc = "responded" => (IsSuccessShape(response) \/ IsFailureShape(response))

====
